---- MODULE Spec2Model ----
(***************************************************************************)
(* Model of src/n_queen_gui.py: the ChessBoard widget (queens, attacking   *)
(* pairs, drag and drop), the NQueenSolver (backtracking search that logs  *)
(* every placement and removal, then timer-driven playback onto the board)  *)
(* and the MainWindow handlers that connect them.                          *)
(*                                                                         *)
(* One action is one handler run to completion on the single GUI thread:   *)
(* a button/spinbox/slider slot, a mouse event, a direct call of a          *)
(* ChessBoard method, a QTimer.singleShot callback, or a paintEvent (of    *)
(* which only the shading of squares is modelled).                         *)
(***************************************************************************)
EXTENDS Integers, Sequences, FiniteSets

VARIABLES
    n,                \* ChessBoard.n
    queens,           \* ChessBoard.queens: list of <<row, col>>
    attacking_pairs,  \* ChessBoard.attacking_pairs: list of <<q1, q2>>
    dragging_queen,   \* ChessBoard.dragging_queen: None or <<row, col>>
    guides_enabled,   \* ChessBoard.guides_enabled
    square_color,     \* the guide shading of the last paintEvent: the dict
                      \* square_color as a set of <<square, colour index>>
    clash_squares,    \* the clash shading of the last paintEvent: a set of squares
    solver,           \* MainWindow.solver: <<>> (None) or <<the NQueenSolver>>
    timers,           \* pending QTimer.singleShot callbacks, each with the solver it
                      \* belongs to: [self, step_idx]; self is <<>> for
                      \* MainWindow.solver, or <<the solver>> once replaced
    last,             \* the handler that ran last, with its arguments
    emitted,          \* the signals the handler that ran last emitted, in order
    ops               \* number of board commands still to be issued (bounded exploration)

vars == <<n, queens, attacking_pairs, dragging_queen, guides_enabled, square_color,
          clash_squares, solver, timers, last, emitted, ops>>

\* what the painting code reads and leaves behind
paint == <<guides_enabled, square_color, clash_squares>>

----------------------------------------------------------------------------
(* Bounds of the exploration *)

\* largest board dimension explored
MaxN == 4
\* largest coordinate passed to a direct placeQueen / removeQueen call
MaxCoord == 1
\* number of board commands (calls, drops, resizes) explored per behaviour
MaxOps == 1
\* largest number of queens a random fill is asked to place
MaxFill == 1
\* largest solver dimension explored by the solver-only specification
MaxSolveN == 5

(* Program constants *)

\* MainWindow.setGeometry(100, 100, 800, 700): the widget is wider than tall
Width == 800
Height == 700
\* NQueenSolver(self.board.n, self.board, speed=6)
Speed == 6

None == <<>>

----------------------------------------------------------------------------
(* Pure helpers *)

abs(x) == IF x < 0 THEN -x ELSE x

Min(a, b) == IF a <= b THEN a ELSE b

\* len(guide_colors) in ChessBoard.paintEvent
GuideColors == 10

\* Python int(a / b) for b > 0: truncation toward zero
TruncDiv(a, b) == IF a >= 0 THEN a \div b ELSE -((-a) \div b)

Range(s) == {s[i] : i \in 1..Len(s)}

\* Python list.remove(x): drops the first occurrence of x
RECURSIVE ListRemove(_, _)
ListRemove(s, x) ==
    IF s = <<>> THEN <<>>
    ELSE IF Head(s) = x THEN Tail(s)
    ELSE <<Head(s)>> \o ListRemove(Tail(s), x)

\* an attack test that forgets the diagonals
areAttackingRowsColumns(q1, q2) ==
    \/ q1[1] = q2[1]
    \/ q1[2] = q2[2]

\* ChessBoard.areAttacking
areAttacking(q1, q2) ==
    \/ q1[1] = q2[1]
    \/ q1[2] = q2[2]
    \/ abs(q1[1] - q2[1]) = abs(q1[2] - q2[2])

\* the two nested loops of ChessBoard.detectAttacks, from indices i < j on
RECURSIVE DetectLoop(_, _, _)
DetectLoop(qs, i, j) ==
    IF i > Len(qs) THEN <<>>
    ELSE IF j > Len(qs) THEN DetectLoop(qs, i + 1, i + 2)
    ELSE (IF areAttacking(qs[i], qs[j]) THEN << <<qs[i], qs[j]>> >> ELSE <<>>)
         \o DetectLoop(qs, i, j + 1)

\* ChessBoard.detectAttacks: the new value of attacking_pairs
detectAttacks(qs) == DetectLoop(qs, 1, 2)

----------------------------------------------------------------------------
(* ChessBoard methods, as functions of the board b = [n, queens, attacking_pairs,
   signals]; signals is the list of the signals the board has emitted since the
   running handler began *)

\* the three signals ChessBoard declares
boardChanged == [signal |-> "boardChanged", args |-> <<>>]
queenPlaced(row, col) == [signal |-> "queenPlaced", args |-> <<row, col>>]
queenRemoved(row, col) == [signal |-> "queenRemoved", args |-> <<row, col>>]

Board == [n |-> n, queens |-> queens, attacking_pairs |-> attacking_pairs,
          signals |-> <<>>]

SetBoard(b) ==
    /\ n' = b.n
    /\ queens' = b.queens
    /\ attacking_pairs' = b.attacking_pairs
    /\ emitted' = b.signals

\* a setN that keeps the queens of the old board
setNKeepsQueens(b, n1) == [b EXCEPT !.n = n1]

\* ChessBoard.setN: no signal is emitted
setN(b, n1) == [b EXCEPT !.n = n1, !.queens = <<>>, !.attacking_pairs = <<>>]

\* a placeQueen without the membership test
placeQueenAlways(b, row, col) ==
    LET qs == Append(b.queens, <<row, col>>)
    IN  [b EXCEPT !.queens = qs, !.attacking_pairs = detectAttacks(qs),
                  !.signals = Append(@, boardChanged)]

placeQueen(b, row, col) ==
    IF <<row, col>> \notin Range(b.queens)
    THEN LET qs == Append(b.queens, <<row, col>>)
         IN  [b EXCEPT !.queens = qs, !.attacking_pairs = detectAttacks(qs),
                       !.signals = Append(@, boardChanged)]
    ELSE b

removeQueen(b, row, col) ==
    IF <<row, col>> \in Range(b.queens)
    THEN LET qs == ListRemove(b.queens, <<row, col>>)
         IN  [b EXCEPT !.queens = qs, !.attacking_pairs = detectAttacks(qs),
                       !.signals = Append(@, boardChanged)]
    ELSE b

clearQueens(b) ==
    [b EXCEPT !.queens = <<>>, !.attacking_pairs = <<>>,
              !.signals = Append(@, boardChanged)]

\* for queen in qs[i..]: placeQueen(queen[0], queen[1])
\* (b1 is the board after the i-th call, computed once)
RECURSIVE PlaceAll(_, _, _)
PlaceAll(b, qs, i) ==
    IF i > Len(qs) THEN b
    ELSE CHOOSE r \in {PlaceAll(b1, qs, i + 1) :
                           b1 \in {placeQueen(b, qs[i][1], qs[i][2])}} : TRUE

\* the squares of an n1 x n1 board: [(r, c) for r in range(n) for c in range(n)]
Squares(n1) == (0..(n1 - 1)) \X (0..(n1 - 1))

\* the possible values of positions[0:k] after random.shuffle(positions)
RECURSIVE ShufflePrefixes(_, _)
ShufflePrefixes(S, k) ==
    IF k <= 0 \/ S = {} THEN {<<>>}
    ELSE UNION {{<<x>> \o t : t \in ShufflePrefixes(S \ {x}, k - 1)} : x \in S}

\* how many squares randomPlaceQueens reads from the shuffled list:
\* min(count, len(positions)) with count defaulting to n
FillCount(b, count) ==
    LET cnt == IF count = <<>> THEN b.n ELSE count[1]
    IN  Min(cnt, Cardinality(Squares(b.n)))

\* ChessBoard.randomPlaceQueens; count is <<>> (omitted) or <<k>>, drawn is the
\* prefix of the shuffled squares that the loop reads
randomPlaceQueens(b, count, drawn) ==
    PlaceAll(clearQueens(b), SubSeq(drawn, 1, FillCount(b, count)), 1)

\* ChessBoard.getSquareAt for a widget of Width x Height pixels and n1 /= 0;
\* None when the pixel is outside the board
getSquareAt(pos, n1) ==
    LET size     == Min(Width, Height)
        margin_x == (Width - size) \div 2
        margin_y == (Height - size) \div 2
        col      == TruncDiv((pos[1] - margin_x) * n1, size)
        row      == TruncDiv((pos[2] - margin_y) * n1, size)
    IN  IF 0 <= row /\ row < n1 /\ 0 <= col /\ col < n1 THEN <<row, col>> ELSE None

\* a getThreatenedSquares that forgets the diagonal running up and to the left
getThreatenedSquaresThreeWays(b, queen) ==
    LET r      == queen[1]
        c      == queen[2]
        column == {<<i, c>> : i \in 0..(b.n - 1)}
        row    == {<<r, j>> : j \in 0..(b.n - 1)}
        diag   == UNION {{<<r + k, c + k>>, <<r + k, c - k>>, <<r - k, c + k>>} :
                             k \in 1..(b.n - 1)}
        inside == {sq \in diag : /\ 0 <= sq[1] /\ sq[1] < b.n
                                  /\ 0 <= sq[2] /\ sq[2] < b.n}
    IN  (column \cup row \cup inside) \ {<<r, c>>}

\* ChessBoard.getThreatenedSquares(queen): the column and the row of the queen
\* over range(n), the four diagonal directions at distance 1..n-1 kept when
\* inside the board, without the queen's own square
getThreatenedSquares(b, queen) ==
    LET r      == queen[1]
        c      == queen[2]
        column == {<<i, c>> : i \in 0..(b.n - 1)}
        row    == {<<r, j>> : j \in 0..(b.n - 1)}
        diag   == UNION {{<<r + k, c + k>>, <<r + k, c - k>>,
                          <<r - k, c + k>>, <<r - k, c - k>>} : k \in 1..(b.n - 1)}
        inside == {sq \in diag : /\ 0 <= sq[1] /\ sq[1] < b.n
                                  /\ 0 <= sq[2] /\ sq[2] < b.n}
    IN  (column \cup row \cup inside) \ {<<r, c>>}

\* the guides loop of paintEvent from the idx-th queen on (idx counts from 1):
\* every square the queen threatens takes the queen's colour, replacing the
\* colour an earlier queen gave it
RECURSIVE ShadeLoop(_, _, _)
ShadeLoop(b, idx, sc) ==
    IF idx > Len(b.queens) THEN sc
    ELSE LET color == (idx - 1) % GuideColors
             sqs   == getThreatenedSquares(b, b.queens[idx])
         IN  ShadeLoop(b, idx + 1,
                       {e \in sc : e[1] \notin sqs} \cup {<<sq, color>> : sq \in sqs})

\* the clash branch of paintEvent: the squares of the queens of attacking_pairs
ClashSquares(b) ==
    UNION {{b.attacking_pairs[i][1], b.attacking_pairs[i][2]} :
               i \in 1..Len(b.attacking_pairs)}

\* mouse positions explored: the centre of each of the first squares of the board,
\* one pixel left of the board, and just right of / below the board
ClickPoints(n1) ==
    LET size == Min(Width, Height)
        mx   == (Width - size) \div 2
        my   == (Height - size) \div 2
        idx  == 0..Min(n1 - 1, MaxCoord)
        xs   == {mx - 1, mx + size} \cup {mx + ((2 * c + 1) * size) \div (2 * n1) : c \in idx}
        ys   == {my + size} \cup {my + ((2 * r + 1) * size) \div (2 * n1) : r \in idx}
    IN  xs \X ys

----------------------------------------------------------------------------
(* NQueenSolver *)

\* a validity test that forgets the diagonals
ValidColumnsOnly(qs, row, col) ==
    \A i \in 1..Len(qs) : qs[i][2] /= col

\* a validity test that forgets the columns
ValidDiagonalsOnly(qs, row, col) ==
    \A i \in 1..Len(qs) : abs(qs[i][1] - row) /= abs(qs[i][2] - col)

\* the validity test of a trial (row, col) against the working list
Valid(qs, row, col) ==
    \A i \in 1..Len(qs) :
        ~(qs[i][2] = col \/ abs(qs[i][1] - row) = abs(qs[i][2] - col))

\* NQueenSolver.solve.backtrack(row, queens) with the step log so far; returns the
\* result, the working list and the step log as the call leaves them.
\* TryCols is the "for col in range(self.n)" loop from column col on.
RECURSIVE backtrack(_, _, _, _)
RECURSIVE TryCols(_, _, _, _, _)
\* a search whose column loop starts at column 1
backtrackFromColumn1(n1, row, qs, steps) ==
    IF row = n1
    THEN [found |-> TRUE, queens |-> qs, steps |-> Append(steps, qs)]
    ELSE TryCols(n1, row, 1, qs, steps)

\* a column loop that does not log the removal of a queen
TryColsUnloggedRemoval(n1, row, col, qs, steps) ==
    IF col >= n1 THEN [found |-> FALSE, queens |-> qs, steps |-> steps]
    ELSE IF Valid(qs, row, col)
    THEN LET pushed == Append(qs, <<row, col>>)
             r      == backtrack(n1, row + 1, pushed, Append(steps, pushed))
         IN  IF r.found THEN r
             ELSE LET popped == SubSeq(r.queens, 1, Len(r.queens) - 1)
                  IN  TryCols(n1, row, col + 1, popped, r.steps)
    ELSE TryCols(n1, row, col + 1, qs, steps)

backtrack(n1, row, qs, steps) ==
    IF row = n1
    THEN [found |-> TRUE, queens |-> qs, steps |-> Append(steps, qs)]
    ELSE TryCols(n1, row, 0, qs, steps)

TryCols(n1, row, col, qs, steps) ==
    IF col >= n1 THEN [found |-> FALSE, queens |-> qs, steps |-> steps]
    ELSE IF Valid(qs, row, col)
    THEN LET pushed == Append(qs, <<row, col>>)
             r      == backtrack(n1, row + 1, pushed, Append(steps, pushed))
         IN  IF r.found THEN r
             ELSE LET popped == SubSeq(r.queens, 1, Len(r.queens) - 1)
                  IN  TryCols(n1, row, col + 1, popped, Append(r.steps, popped))
    ELSE TryCols(n1, row, col + 1, qs, steps)

\* the step log NQueenSolver.solve produces for a solver of dimension n1
SolutionSteps(n1) == backtrack(n1, 0, <<>>, <<>>).steps

\* NQueenSolver.__init__ followed by the first three lines of solve.  called is
\* the list of the arguments the completion callback has been invoked with.
NewSolver(n1) ==
    [n |-> n1, speed |-> Speed, solution_steps |-> <<>>, current_step |-> 0,
     solving |-> TRUE, called |-> <<>>]

\* an end of playback that forgets to reset the flag
FinishStillSolving(s) == [s EXCEPT !.called = Append(@, TRUE)]

\* the end of a playback: self.solving = False; callback(True)
Finish(s) == [s EXCEPT !.solving = FALSE, !.called = Append(@, TRUE)]

\* a showStep that places the snapshot without clearing the board first
showStepNoClear(b, s, step_idx) ==
    IF step_idx < Len(s.solution_steps)
    THEN LET b1 == PlaceAll(b, s.solution_steps[step_idx + 1], 1)
         IN  IF step_idx < Len(s.solution_steps) - 1
             THEN [board |-> b1, solver |-> s, scheduled |-> {step_idx + 1}]
             ELSE [board |-> b1, solver |-> Finish(s), scheduled |-> {}]
    ELSE [board |-> b, solver |-> Finish(s), scheduled |-> {}]

\* animateSolution.showStep(step_idx) of solver s on board b (step_idx counts
\* from 0): the board and the solver it leaves, and the step_idx values it
\* schedules with QTimer.singleShot
showStep(b, s, step_idx) ==
    IF step_idx < Len(s.solution_steps)
    THEN LET b1 == PlaceAll(clearQueens(b), s.solution_steps[step_idx + 1], 1)
         IN  IF step_idx < Len(s.solution_steps) - 1
             THEN [board |-> b1, solver |-> s, scheduled |-> {step_idx + 1}]
             ELSE [board |-> b1, solver |-> Finish(s), scheduled |-> {}]
    ELSE [board |-> b, solver |-> Finish(s), scheduled |-> {}]

\* NQueenSolver.animateSolution
animateSolution(b, s) ==
    IF s.solution_steps = <<>>
    THEN [board |-> b, solver |-> [s EXCEPT !.called = Append(@, FALSE)],
          scheduled |-> {}]
    ELSE showStep(b, s, 0)

\* NQueenSolver.solve of a freshly constructed solver
solve(b, n1) ==
    animateSolution(b, [NewSolver(n1) EXCEPT !.solution_steps = SolutionSteps(n1)])

----------------------------------------------------------------------------
(* Initial state: MainWindow.__init__ builds ChessBoard(n) with no queens and
   solver = None.  The dimension is drawn from 1..MaxN. *)

\* ChessBoard.__init__: guides off; nothing painted yet
InitPaint ==
    /\ guides_enabled = FALSE
    /\ square_color = {}
    /\ clash_squares = {}

Init ==
    /\ n \in 1..MaxN
    /\ queens = <<>>
    /\ attacking_pairs = <<>>
    /\ dragging_queen = None
    /\ solver = <<>>
    /\ timers = {}
    /\ last = [op |-> "init", args |-> <<>>]
    /\ emitted = <<>>
    /\ InitPaint
    /\ ops = MaxOps

\* arguments explored for setN and for direct placeQueen / removeQueen calls
NArgs == -1..MaxN
Coords == -1..MaxCoord
CountArgs == {<<k>> : k \in -1..MaxFill}

Command(op, args) ==
    /\ ops > 0
    /\ ops' = ops - 1
    /\ last' = [op |-> op, args |-> args]
    /\ UNCHANGED paint

\* MainWindow.onNChanged(n1): self.board.setN(n1)
onNChanged(n1) ==
    /\ Command("onNChanged", <<n1>>)
    /\ SetBoard(setN(Board, n1))
    /\ UNCHANGED <<dragging_queen, solver, timers>>

\* a direct call board.placeQueen(row, col)
CallPlaceQueen(row, col) ==
    /\ Command("placeQueen", <<row, col>>)
    /\ SetBoard(placeQueen(Board, row, col))
    /\ UNCHANGED <<dragging_queen, solver, timers>>

\* a direct call board.removeQueen(row, col)
CallRemoveQueen(row, col) ==
    /\ Command("removeQueen", <<row, col>>)
    /\ SetBoard(removeQueen(Board, row, col))
    /\ UNCHANGED <<dragging_queen, solver, timers>>

\* a direct call board.clearQueens()
CallClearQueens ==
    /\ Command("clearQueens", <<>>)
    /\ SetBoard(clearQueens(Board))
    /\ UNCHANGED <<dragging_queen, solver, timers>>

\* board.randomPlaceQueens(count) with count given (<<k>>) or omitted (<<>>)
RandomFill(op, count) ==
    /\ n <= MaxFill
    /\ FillCount(Board, count) <= MaxFill
    /\ Command(op, count)
    /\ \E drawn \in ShufflePrefixes(Squares(n), FillCount(Board, count)) :
           SetBoard(randomPlaceQueens(Board, count, drawn))
    /\ UNCHANGED <<dragging_queen, solver, timers>>

CallRandomPlaceQueens(count) == RandomFill("randomPlaceQueens", count)

\* MainWindow.onMakePuzzle: self.board.randomPlaceQueens()
onMakePuzzle == RandomFill("onMakePuzzle", <<>>)

\* ChessBoard.mousePressEvent with the left button at pixel pos.  With n = 0
\* getSquareAt divides by zero and the handler ends without changing anything.
mousePressEvent(pos) ==
    /\ n /= 0
    /\ getSquareAt(pos, n) /= None
    /\ getSquareAt(pos, n) \in Range(queens)
    /\ dragging_queen' = getSquareAt(pos, n)
    /\ last' = [op |-> "mousePressEvent", args |-> pos]
    /\ emitted' = <<>>
    /\ UNCHANGED <<n, queens, attacking_pairs, solver, timers, ops, paint>>

\* the board ChessBoard.mouseReleaseEvent leaves when a drag ends at pixel pos
DropBoard(b, dragged, pos) ==
    LET square == getSquareAt(pos, b.n)
    IN  IF square /= None
        THEN IF square /= dragged
             THEN placeQueen(removeQueen(b, dragged[1], dragged[2]),
                             square[1], square[2])
             ELSE b
        ELSE removeQueen(b, dragged[1], dragged[2])

\* ChessBoard.mouseReleaseEvent with the left button at pixel pos
mouseReleaseEvent(pos) ==
    /\ n /= 0
    /\ dragging_queen /= None
    /\ Command("mouseReleaseEvent", pos)
    /\ SetBoard(DropBoard(Board, dragging_queen, pos))
    /\ dragging_queen' = None
    /\ UNCHANGED <<solver, timers>>

\* MainWindow.solver is not None and MainWindow.solver.solving
Busy == solver /= <<>> /\ solver[1].solving

\* an onSolve without the guard
NeverRejected == FALSE

\* the "if self.solver and self.solver.solving: return" of MainWindow.onSolve
SolveRejected == Busy

\* the timers of a solver that MainWindow.solver no longer refers to keep the
\* solver object itself
Orphaned(ts) ==
    {IF t.self = <<>> THEN [t EXCEPT !.self = solver] ELSE t : t \in ts}

\* MainWindow.onSolve; last.args records the dimension of the run it started, or
\* nothing when the request was ignored
onSolve ==
    IF SolveRejected
    THEN /\ last' = [op |-> "onSolve", args |-> <<>>]
         /\ emitted' = <<>>
         /\ UNCHANGED <<n, queens, attacking_pairs, dragging_queen, solver, timers,
                        ops, paint>>
    ELSE /\ LET r == solve(Board, n)
            IN  /\ SetBoard(r.board)
                /\ solver' = <<r.solver>>
                /\ timers' = Orphaned(timers) \cup
                             {[self |-> <<>>, step_idx |-> i] : i \in r.scheduled}
         /\ last' = [op |-> "onSolve", args |-> <<n>>]
         /\ UNCHANGED <<dragging_queen, ops, paint>>

\* a pending QTimer.singleShot fires: lambda: showStep(step_idx + 1)
TimerFires(t) ==
    /\ t \in timers
    /\ LET s == IF t.self = <<>> THEN solver[1] ELSE t.self[1]
           r == showStep(Board, s, t.step_idx)
       IN  /\ SetBoard(r.board)
           /\ solver' = IF t.self = <<>> THEN <<r.solver>> ELSE solver
           /\ timers' = (timers \ {t}) \cup
                        {[self |-> IF t.self = <<>> THEN <<>> ELSE <<r.solver>>,
                          step_idx |-> i] : i \in r.scheduled}
    /\ last' = [op |-> "showStep", args |-> <<t.step_idx>>]
    /\ UNCHANGED <<dragging_queen, ops, paint>>

\* MainWindow.onGuidesChanged(value): self.board.setGuidesEnabled(value == 1)
onGuidesChanged(value) ==
    /\ guides_enabled' = (value = 1)
    /\ last' = [op |-> "onGuidesChanged", args |-> <<value>>]
    /\ emitted' = <<>>
    /\ UNCHANGED <<n, queens, attacking_pairs, dragging_queen, square_color,
                   clash_squares, solver, timers, ops>>

\* ChessBoard.paintEvent: the shading it draws.  With n = 0 it stops at
\* "size / self.n" before drawing anything.
paintEvent ==
    /\ n /= 0
    /\ square_color' = IF guides_enabled THEN ShadeLoop(Board, 1, {}) ELSE {}
    /\ clash_squares' = IF guides_enabled THEN {} ELSE ClashSquares(Board)
    /\ last' = [op |-> "paintEvent", args |-> <<>>]
    /\ emitted' = <<>>
    /\ UNCHANGED <<n, queens, attacking_pairs, dragging_queen, guides_enabled,
                   solver, timers, ops>>

Next ==
    \/ \E n1 \in NArgs : onNChanged(n1)
    \/ \E row \in Coords, col \in Coords : CallPlaceQueen(row, col)
    \/ \E row \in Coords, col \in Coords : CallRemoveQueen(row, col)
    \/ CallClearQueens
    \/ \E count \in CountArgs : CallRandomPlaceQueens(count)
    \/ onMakePuzzle
    \/ \E pos \in ClickPoints(n) : mousePressEvent(pos)
    \/ \E pos \in ClickPoints(n) : mouseReleaseEvent(pos)
    \/ onSolve
    \/ \E t \in timers : TimerFires(t)

Spec == Init /\ [][Next]_vars

----------------------------------------------------------------------------
(* The solver on its own, on larger boards: a board of dimension 1..MaxSolveN,
   solve requests, the playback timers, and resizes of the board in between. *)

InitSolve ==
    /\ n \in 1..MaxSolveN
    /\ queens = <<>>
    /\ attacking_pairs = <<>>
    /\ dragging_queen = None
    /\ solver = <<>>
    /\ timers = {}
    /\ last = [op |-> "init", args |-> <<>>]
    /\ emitted = <<>>
    /\ InitPaint
    /\ ops = MaxOps

NextSolve ==
    \/ \E n1 \in NArgs : onNChanged(n1)
    \/ onSolve
    \/ \E t \in timers : TimerFires(t)

SpecSolve == InitSolve /\ [][NextSolve]_vars

\* the Qt event loop fires every pending single-shot timer
FairSolve == SpecSolve /\ WF_vars(\E t \in timers : TimerFires(t))

----------------------------------------------------------------------------
(* The board on its own, with one more command per behaviour: resizes, direct
   placements and random fills. *)

InitFill ==
    /\ n \in 1..MaxN
    /\ queens = <<>>
    /\ attacking_pairs = <<>>
    /\ dragging_queen = None
    /\ solver = <<>>
    /\ timers = {}
    /\ last = [op |-> "init", args |-> <<>>]
    /\ emitted = <<>>
    /\ InitPaint
    /\ ops = MaxOps + 1

NextFill ==
    \/ \E n1 \in NArgs : onNChanged(n1)
    \/ \E row \in Coords, col \in Coords : CallPlaceQueen(row, col)
    \/ \E count \in CountArgs : CallRandomPlaceQueens(count)
    \/ onMakePuzzle

SpecFill == InitFill /\ [][NextFill]_vars

----------------------------------------------------------------------------
(* The guides: the slider, the painting of the board, and queens put on the
   board by a playback. *)

NextGuides ==
    \/ \E value \in 0..1 : onGuidesChanged(value)
    \/ paintEvent
    \/ onSolve
    \/ \E t \in timers : TimerFires(t)

SpecGuides == Init /\ [][NextGuides]_vars

----------------------------------------------------------------------------
(* Claims about the search result *)

\* the last snapshot of a solver's step log
LastSnapshot(s) == s.solution_steps[Len(s.solution_steps)]

\* qs holds exactly n1 queens, one in each row 0..n1-1, no two in one column or
\* on one diagonal
IsSolution(qs, n1) ==
    /\ Len(qs) = n1
    /\ \A r \in 0..(n1 - 1) : Cardinality({i \in 1..Len(qs) : qs[i][1] = r}) = 1
    /\ \A i \in 1..Len(qs), j \in 1..Len(qs) :
           i < j => /\ qs[i][2] /= qs[j][2]
                    /\ qs[i][1] - qs[j][1] /= qs[i][2] - qs[j][2]
                    /\ qs[i][1] - qs[j][1] /= qs[j][2] - qs[i][2]

\* C1: for every board size n >= 4, the step log of a solver run ends with a
\* snapshot of exactly n queens, one per row 0..n-1, no two sharing a column or a
\* diagonal, and the outcome reported to the completion callback is solved = true
C1_SolvedFromFour ==
    (solver /= <<>> /\ solver[1].n >= 4) =>
        /\ solver[1].solution_steps /= <<>>
        /\ IsSolution(LastSnapshot(solver[1]), solver[1].n)
        /\ (~solver[1].solving => solver[1].called = <<TRUE>>)
        /\ (solver[1].called /= <<>> => solver[1].called = <<TRUE>>)

\* a run on a board of dimension 5 has finished and reported its outcome
C1_Witness ==
    /\ solver /= <<>>
    /\ solver[1].n = 5
    /\ ~solver[1].solving
    /\ solver[1].called /= <<>>
    /\ queens = LastSnapshot(solver[1])

\* C2: for n = 2 and n = 3 a run reports solved = false to its completion
\* callback and the last snapshot of the step log is empty or partial
C2_UnsolvableReportsFalse ==
    (solver /= <<>> /\ solver[1].n \in {2, 3} /\ solver[1].called /= <<>>) =>
        /\ solver[1].called = <<FALSE>>
        /\ \/ solver[1].solution_steps = <<>>
           \/ Len(LastSnapshot(solver[1])) < solver[1].n

\* all N-Queens solutions of dimension n1, each as the column of every row 1..n1
AllSolutions(n1) ==
    {f \in [1..n1 -> 0..(n1 - 1)] :
        \A i \in 1..n1, j \in 1..n1 :
            i < j => /\ f[i] /= f[j]
                     /\ f[i] - f[j] /= i - j
                     /\ f[i] - f[j] /= j - i}

LexLeq(f, g, n1) ==
    \/ f = g
    \/ \E k \in 1..n1 : f[k] < g[k] /\ \A j \in 1..(k - 1) : f[j] = g[j]

\* C3: for every solvable n (n = 1 or n >= 4) the final snapshot is the solution
\* whose column sequence by row is lexicographically smallest among all
\* N-Queens solutions, with the queen of row i at list index i; for n = 4 it is
\* [(0,1),(1,3),(2,0),(3,2)]
C3_FirstSolution ==
    (/\ solver /= <<>>
     /\ last.op = "onSolve"
     /\ last.args /= <<>>
     /\ (solver[1].n = 1 \/ solver[1].n >= 4)) =>
        LET n1   == solver[1].n
            snap == LastSnapshot(solver[1])
            cols == [i \in 1..Len(snap) |-> snap[i][2]]
        IN  /\ solver[1].solution_steps /= <<>>
            /\ Len(snap) = n1
            /\ \A i \in 1..n1 : snap[i][1] = i - 1
            /\ cols \in AllSolutions(n1)
            /\ \A g \in AllSolutions(n1) : LexLeq(cols, g, n1)
            /\ (n1 = 4 => snap = << <<0, 1>>, <<1, 3>>, <<2, 0>>, <<3, 2>> >>)

\* a solve request on a board of dimension 4 has just produced its step log
C3_Witness ==
    /\ solver /= <<>>
    /\ last.op = "onSolve"
    /\ last.args /= <<>>
    /\ solver[1].n = 4
    /\ Len(solver[1].solution_steps) > 4

----------------------------------------------------------------------------
(* Claims about concurrent requests *)

C5_ResizeCancelsPlayback ==
    last.op = "onNChanged" => (timers = {} /\ ~Busy)

----------------------------------------------------------------------------
(* Claims about the board *)

\* C6: every position in queens satisfies 0 <= row < n and 0 <= col < n
C6_QueensInBounds ==
    \A q \in Range(queens) : 0 <= q[1] /\ q[1] < n /\ 0 <= q[2] /\ q[2] < n

\* two distinct squares on one row, one column or one diagonal
SharesLine(p, q) ==
    /\ p /= q
    /\ \/ p[1] = q[1]
       \/ p[2] = q[2]
       \/ p[1] - q[1] = p[2] - q[2]
       \/ p[1] - q[1] = q[2] - p[2]

\* C7: attacking_pairs, read as a set of unordered pairs, is exactly the set of
\* pairs of distinct queens in queens that share a row, a column or a diagonal
C7_AttackingPairsExact ==
    {{attacking_pairs[i][1], attacking_pairs[i][2]} : i \in 1..Len(attacking_pairs)}
        = {{p, q} : <<p, q>> \in {pq \in Range(queens) \X Range(queens) :
                                      SharesLine(pq[1], pq[2])}}

\* a board with at least three queens, some attacking each other and some not
C7_Witness ==
    /\ Len(queens) >= 3
    /\ attacking_pairs /= <<>>
    /\ \E p \in Range(queens), q \in Range(queens) : p /= q /\ ~SharesLine(p, q)
    /\ \E i \in 1..Len(attacking_pairs) :
           abs(attacking_pairs[i][1][1] - attacking_pairs[i][2][1]) = 1
           /\ abs(attacking_pairs[i][1][2] - attacking_pairs[i][2][2]) = 1

\* C8: placing a queen on a square that already holds one, or removing a queen
\* from a square that holds none, leaves queens and attacking_pairs unchanged,
\* and queens never contains the same position twice
C8_PlaceRemoveIdempotent ==
    /\ [](Cardinality(Range(queens)) = Len(queens))
    /\ [][(\/ last'.op = "placeQueen" /\ last'.args \in Range(queens)
           \/ last'.op = "removeQueen" /\ last'.args \notin Range(queens))
          => UNCHANGED <<queens, attacking_pairs>>]_vars

\* placeQueen was called on a square whose queen was already on the board
C8_Witness ==
    /\ last.op = "placeQueen"
    /\ Len(queens) >= 2
    /\ last.args \in Range(queens)
    /\ queens[Len(queens)] /= last.args

\* C9: setN called with n' < 1 leaves n, queens and attacking_pairs as they were
C9_InvalidDimensionRejected ==
    [][(last'.op = "onNChanged" /\ last'.args[1] < 1) =>
           UNCHANGED <<n, queens, attacking_pairs>>]_vars

----------------------------------------------------------------------------
(* Claims about the life cycle of a run *)

\* the run's playback is in progress: one step is scheduled, no outcome reported
Animating(s) ==
    /\ s.solving
    /\ s.called = <<>>
    /\ Cardinality(timers) = 1

\* the run is over: nothing scheduled, the outcome reported once
Done(s) ==
    /\ ~s.solving
    /\ Len(s.called) = 1
    /\ timers = {}

\* C10: a run with n >= 1 has solving = true until its last playback step has
\* been applied, then solving = false with the completion callback invoked
\* exactly once; with every scheduled timer firing, each run reaches that end
C10_RunLifeCycle ==
    /\ []((solver /= <<>> /\ solver[1].n >= 1) =>
              (Animating(solver[1]) \/ Done(solver[1])))
    /\ (solver /= <<>> /\ solver[1].n >= 1 /\ solver[1].solving)
           ~> (solver /= <<>> /\ Done(solver[1]))

\* a run of more than ten playback steps has ended
C10_Witness ==
    /\ solver /= <<>>
    /\ solver[1].n >= 1
    /\ Len(solver[1].solution_steps) > 10
    /\ last.op = "showStep"
    /\ Done(solver[1])

----------------------------------------------------------------------------
(* Claims about the signals of the board *)

\* the handlers that are calls of a mutating board operation
BoardCommands ==
    {"placeQueen", "removeQueen", "clearQueens", "onNChanged",
     "randomPlaceQueens", "onMakePuzzle"}

\* C11: every call of a mutating board operation (placeQueen, removeQueen,
\* clearQueens, setN, randomPlaceQueens) that changes the board state emits
\* boardChanged at least once before it returns
C11_ChangeEmitsBoardChanged ==
    [][(last'.op \in BoardCommands /\ ~UNCHANGED <<n, queens, attacking_pairs>>)
           => boardChanged \in Range(emitted')]_vars

\* C12: every placeQueen call that adds a queen emits queenPlaced(row, col) with
\* the coordinates of the added queen, and every removeQueen call that removes a
\* queen emits queenRemoved(row, col) with the coordinates of the removed queen
C12_PositionalEvents ==
    [][/\ (last'.op = "placeQueen" /\ queens' /= queens)
              => queenPlaced(last'.args[1], last'.args[2]) \in Range(emitted')
       /\ (last'.op = "removeQueen" /\ queens' /= queens)
              => queenRemoved(last'.args[1], last'.args[2]) \in Range(emitted')]_vars

----------------------------------------------------------------------------
(* Claims about resizing *)

\* C15: setN(n') with n' >= 1, called in any board state, sets n to n' and leaves
\* the board with zero queens and zero attacking pairs
C15_ResizeClears ==
    (last.op = "onNChanged" /\ last.args[1] >= 1) =>
        /\ n = last.args[1]
        /\ queens = <<>>
        /\ attacking_pairs = <<>>

\* the board was resized to another dimension while a playback, which had put
\* queens on it, was still pending
C15_Witness ==
    /\ last.op = "onNChanged"
    /\ last.args[1] >= 1
    /\ solver /= <<>>
    /\ last.args[1] /= solver[1].n
    /\ \E t \in timers : t.step_idx >= 2

----------------------------------------------------------------------------
(* Claims about the step log *)

\* snapshot b follows snapshot a by one placement (one queen appended at the end)
\* or by one removal (the last queen of a dropped)
Stepwise(a, b) ==
    \/ Len(b) = Len(a) + 1 /\ SubSeq(b, 1, Len(a)) = a
    \/ Len(a) >= 1 /\ b = SubSeq(a, 1, Len(a) - 1)

\* C16 as stated: the first snapshot of the step log holds one queen and every
\* later snapshot is obtained from its predecessor by appending one queen or by
\* removing the predecessor's last queen, so no two consecutive snapshots are equal
C16_OneSnapshotPerStep ==
    solver /= <<>> =>
        LET steps == solver[1].solution_steps
        IN  /\ (steps /= <<>> => Len(steps[1]) = 1)
            /\ \A k \in 2..Len(steps) : Stepwise(steps[k - 1], steps[k])

\* C16, amended: the step log holds one snapshot per placement and one per
\* removal, and a search that reaches row n appends one more snapshot, a copy of
\* the list it has just logged (for n = 0 this empty copy is the only snapshot).
\* Apart from that final copy the first snapshot holds one queen and every later
\* one follows its predecessor by one placement or one removal; the final copy
\* equals its predecessor.
C16_OneSnapshotPerStepAndFinalCopy ==
    solver /= <<>> =>
        LET steps  == solver[1].solution_steps
            len    == Len(steps)
            solved == len > 0 /\ Len(steps[len]) = solver[1].n
            body   == IF solved THEN len - 1 ELSE len
        IN  /\ (body >= 1 => Len(steps[1]) = 1)
            /\ \A k \in 2..body : Stepwise(steps[k - 1], steps[k])
            /\ (solved /\ body >= 1 => steps[len] = steps[body])
            /\ (solved /\ body = 0 => steps[len] = <<>>)
            /\ (~solved => \A k \in 1..len : Len(steps[k]) < solver[1].n)

\* a search on a board of dimension 4 has logged removals and ended with the
\* copy of the solution
C16_Witness ==
    /\ solver /= <<>>
    /\ solver[1].n = 4
    /\ LET steps == solver[1].solution_steps
       IN  /\ Len(steps) >= 2
           /\ steps[Len(steps)] = steps[Len(steps) - 1]
           /\ \E k \in 2..Len(steps) : Len(steps[k]) < Len(steps[k - 1])

\* the working list qs of a search of dimension n1 is row-indexed, inside the
\* board and free of column and diagonal conflicts
WellFormed(qs, n1) ==
    /\ Len(qs) <= n1
    /\ \A i \in 1..Len(qs) :
           /\ qs[i][1] = i - 1
           /\ 0 <= qs[i][1] /\ qs[i][1] < n1
           /\ 0 <= qs[i][2] /\ qs[i][2] < n1
    /\ \A i \in 1..Len(qs), j \in 1..Len(qs) :
           i < j => /\ qs[i][2] /= qs[j][2]
                    /\ abs(qs[i][1] - qs[j][1]) /= abs(qs[i][2] - qs[j][2])

\* C17: the working list, as every snapshot of the step log records it, has its
\* i-th queen on row i, at most n queens with both coordinates in [0, n), and no
\* two queens in one column or on one diagonal
C17_SnapshotsWellFormed ==
    solver /= <<>> =>
        \A k \in 1..Len(solver[1].solution_steps) :
            WellFormed(solver[1].solution_steps[k], solver[1].n)

\* a search on a board of dimension 5 has logged partial and complete lists
C17_Witness ==
    /\ solver /= <<>>
    /\ solver[1].n = 5
    /\ \E k \in 1..Len(solver[1].solution_steps) :
           Len(solver[1].solution_steps[k]) = 3
    /\ \E k \in 1..Len(solver[1].solution_steps) :
           Len(solver[1].solution_steps[k]) = 5

----------------------------------------------------------------------------
(* Claims about playback *)

\* C18: playback applies the snapshots of the step log in index order 0, 1, ...,
\* last, each exactly once and none skipped (the run starts by applying snapshot
\* 0; the only pending timer is the one of the next index, and applying
\* snapshot i schedules snapshot i + 1 and nothing else), and right after step i
\* is applied the queens of the board equal snapshot i, whatever was done to the
\* board during the delay
C18_PlaybackInOrder ==
    [][/\ (/\ last'.op = "onSolve"
           /\ last'.args /= <<>>
           /\ solver'[1].solution_steps /= <<>>) =>
              /\ queens' = solver'[1].solution_steps[1]
              /\ timers' = IF Len(solver'[1].solution_steps) > 1
                           THEN {[self |-> <<>>, step_idx |-> 1]}
                           ELSE {}
       /\ last'.op = "showStep" =>
              \E t \in timers :
                  /\ timers = {t}
                  /\ t.step_idx = last'.args[1]
                  /\ LET s     == IF t.self = <<>> THEN solver[1] ELSE t.self[1]
                         steps == s.solution_steps
                         i     == t.step_idx
                     IN  /\ 1 <= i /\ i < Len(steps)
                         /\ queens' = steps[i + 1]
                         /\ timers' = IF i + 1 < Len(steps)
                                      THEN {[t EXCEPT !.step_idx = i + 1]}
                                      ELSE {}]_vars

\* a playback step has replaced a board on which a queen had been picked up
\* during the delay: the dragged queen is gone, the board shows the snapshot
C18_Witness ==
    /\ last.op = "showStep"
    /\ last.args[1] >= 2
    /\ solver /= <<>>
    /\ dragging_queen /= None
    /\ dragging_queen \notin Range(queens)
    /\ queens /= <<>>
    /\ queens = solver[1].solution_steps[last.args[1] + 1]

----------------------------------------------------------------------------
(* Claims about drag and drop *)

\* C19: a drag released on a square inside the board moves the dragged queen and
\* keeps the number of queens unchanged (the drop square is occupied, the old
\* square vacated); the number of queens changes only by a release outside the
\* board, which reduces it by exactly one
C19_DropKeepsCount ==
    [][last'.op = "mouseReleaseEvent" =>
           LET square == getSquareAt(last'.args, n)
           IN  /\ square /= None =>
                      /\ Len(queens') = Len(queens)
                      /\ square \in Range(queens')
                      /\ (square /= dragging_queen =>
                              dragging_queen \notin Range(queens'))
               /\ Len(queens') /= Len(queens) =>
                      /\ square = None
                      /\ Len(queens') = Len(queens) - 1]_vars

----------------------------------------------------------------------------
(* Claims about the random fill *)

\* C14: after randomPlaceQueens(count) with count >= 0 the board holds exactly
\* min(count, n * n) queens, and with count omitted exactly n queens, all on
\* pairwise distinct squares inside the board (so none of the queens of the old
\* board is left unless it was drawn again)
C14_RandomFillCount ==
    (/\ last.op \in {"randomPlaceQueens", "onMakePuzzle"}
     /\ (last.args = <<>> \/ last.args[1] >= 0)) =>
        /\ Len(queens) = IF last.args = <<>> THEN n ELSE Min(last.args[1], n * n)
        /\ Cardinality(Range(queens)) = Len(queens)
        /\ Range(queens) \subseteq Squares(n)

----------------------------------------------------------------------------
(* Claims about the guides *)

\* C13: for the board size n of every reachable board and every position p on
\* the board, getThreatenedSquares(p) is exactly the set of the squares q /= p of
\* the board that share p's row, p's column or one of p's diagonals, whatever
\* queens are on the board; so q is threatened from p iff p is threatened from q
C13_ThreatenedSquaresExact ==
    LET threatened == [p \in Squares(n) |-> getThreatenedSquares(Board, p)]
    IN  /\ \A p \in Squares(n) :
               threatened[p] = {q \in Squares(n) : q /= p /\ SharesLine(p, q)}
        /\ \A p \in Squares(n), q \in Squares(n) :
               q \in threatened[p] <=> p \in threatened[q]

\* a paintEvent in guides mode has shaded a board of dimension 4 with three
\* queens or more from the squares each queen threatens
C13_Witness ==
    /\ last.op = "paintEvent"
    /\ guides_enabled
    /\ n = 4
    /\ Len(queens) >= 3
    /\ \A i \in 1..Len(queens) :
           getThreatenedSquares(Board, queens[i]) \subseteq {e[1] : e \in square_color}
    /\ square_color /= {}

====
